---- MODULE Spec2Model ----
(***************************************************************************)
(* Model of pypathway/hotnet/hotnet2/hnio.py: the loaders and writers of   *)
(* the HotNet2 input/output layer.                                         *)
(*                                                                         *)
(* Text is a sequence of one-character strings, so that startswith,        *)
(* endswith and split are computed and not assumed.  A file is a sequence  *)
(* of lines; a line already cut into columns is a sequence of texts.       *)
(* Every loader is one action: it draws its arguments, runs the whole      *)
(* function and records the call and what it returned or raised.           *)
(***************************************************************************)
EXTENDS Integers, Sequences, FiniteSets, TLC

VARIABLES pc, call, ret, fs

vars == <<pc, call, ret, fs>>

----------------------------------------------------------------------------
(* Bounds of the model *)

MaxLines == 2

MaxLineLen == 2

MaxNodes == 2

MaxEdges == 1

MaxDeltas == 2

----------------------------------------------------------------------------
(* Generic helpers *)

Range(s) == {s[i] : i \in 1..Len(s)}

SeqsUpTo(S, n) == UNION {[1..k -> S] : k \in 0..n}

RECURSIVE Concat(_)
Concat(ss) == IF ss = <<>> THEN <<>> ELSE Head(ss) \o Concat(Tail(ss))

Ok(v) == [status |-> "ok", value |-> v]

Raise(e) == [status |-> e, value |-> <<>>]

NoCall == [op |-> "none"]

(* a file system: the directories, and the content of every file *)
EmptyFs == [dirs |-> {}, files |-> [p \in {} |-> <<>>]]

----------------------------------------------------------------------------
(* constants.py: the record types and the mutation type tags *)

SNV == "snv"

INACTIVE_SNV == "inactive_snv"

AMP == "amp"

DEL == "del"

Mutation(sample, gene, mut_type) ==
    [sample |-> sample, gene |-> gene, mut_type |-> mut_type]

Fusion(sample, genes) == [sample |-> sample, genes |-> genes]

----------------------------------------------------------------------------
(* Texts used as inputs *)

SampleS == <<"S">>

SampleT == <<"T">>

GeneP == <<"P">>

GeneQ == <<"Q">>

CommentCol == <<"#", "S">>

TokPA == <<"P", "(", "A", ")">>

TokQD == <<"Q", "(", "D", ")">>

TokQX == <<"Q", "(", "X", ")">>

TokP == <<"P">>

TokPD == <<"P", "(", "D", ")">>

Samples == {SampleS, SampleT}

Genes == {GeneP, GeneQ}

(* l.startswith("#") on a line whose first column is arr[1] *)
startswith_hash(arr) == Len(arr) > 0 /\ Len(arr[1]) > 0 /\ arr[1][1] = "#"

(* s.endswith(suffix) *)
endswith(s, suffix) ==
    /\ Len(s) >= Len(suffix)
    /\ SubSeq(s, Len(s) - Len(suffix) + 1, Len(s)) = suffix

(* s.split(sep)[0]: the text before the first occurrence of sep *)
split_first(s, sep) ==
    IF \E i \in 1..Len(s) : s[i] = sep
    THEN LET k == CHOOSE i \in 1..Len(s) :
                     s[i] = sep /\ \A j \in 1..(i - 1) : s[j] # sep
         IN SubSeq(s, 1, k - 1)
    ELSE s

----------------------------------------------------------------------------
(* Whitelists: None, or a set.  Python's truth value of the argument is    *)
(* what include tests.                                                     *)

NoneWl == [given |-> FALSE, items |-> {}]

SetWl(S) == [given |-> TRUE, items |-> S]

Whitelists(S) == {NoneWl} \cup {SetWl(T) : T \in SUBSET S}

truthy(whitelist) == whitelist.given /\ whitelist.items # {}

include(item, whitelist) ==
    IF truthy(whitelist) THEN item \in whitelist.items ELSE TRUE

(* the lines a loader keeps: [... for l in f if not l.startswith("#")] *)
non_comment(f) == SelectSeq(f, LAMBDA arr : ~startswith_hash(arr))

----------------------------------------------------------------------------
(* load_snvs *)

load_snvs_dedup(snv_file, gene_wlst, sample_wlst) ==
    LET arrs == SelectSeq(non_comment(snv_file),
                          LAMBDA arr : include(arr[1], sample_wlst))
        all == Concat([i \in 1..Len(arrs) |->
                  LET genes == SelectSeq(Tail(arrs[i]),
                                         LAMBDA gene : include(gene, gene_wlst))
                  IN [j \in 1..Len(genes) |-> Mutation(arrs[i][1], genes[j], SNV)]])
        first == SelectSeq([k \in 1..Len(all) |-> k],
                           LAMBDA k : \A h \in 1..(k - 1) : all[h] # all[k])
    IN Ok([k \in 1..Len(first) |-> all[first[k]]])

load_snvs(snv_file, gene_wlst, sample_wlst) ==
    LET arrs == SelectSeq(non_comment(snv_file),
                          LAMBDA arr : include(arr[1], sample_wlst))
    IN Ok(Concat([i \in 1..Len(arrs) |->
            LET genes == SelectSeq(Tail(arrs[i]),
                                   LAMBDA gene : include(gene, gene_wlst))
            IN [j \in 1..Len(genes) |-> Mutation(arrs[i][1], genes[j], SNV)]]))

----------------------------------------------------------------------------
(* load_inactivating_snvs: gene in column 0, sample in column 1 *)

load_inactivating_snvs(inactivating_snvs_file, gene_wlst, sample_wlst) ==
    LET arrs == non_comment(inactivating_snvs_file)
    IN IF \E i \in 1..Len(arrs) : Len(arrs[i]) < 2
       THEN Raise("IndexError")
       ELSE LET kept == SelectSeq(arrs, LAMBDA arr :
                            include(arr[2], sample_wlst) /\ include(arr[1], gene_wlst))
            IN Ok([i \in 1..Len(kept) |->
                      Mutation(kept[i][2], kept[i][1], INACTIVE_SNV)])

----------------------------------------------------------------------------
(* load_cnas and get_mut_type *)

ValueError == "ValueError"

get_mut_type_guess(cna) ==
    IF endswith(cna, <<"(", "A", ")">>) THEN AMP ELSE DEL

get_mut_type(cna) ==
    IF endswith(cna, <<"(", "A", ")">>) THEN AMP
    ELSE IF endswith(cna, <<"(", "D", ")">>) THEN DEL
    ELSE ValueError

load_cnas(cna_file, gene_wlst, sample_wlst) ==
    LET arrs == SelectSeq(non_comment(cna_file),
                          LAMBDA arr : include(arr[1], sample_wlst))
        muts == Concat([i \in 1..Len(arrs) |->
                  LET cnas == SelectSeq(Tail(arrs[i]), LAMBDA cna :
                                  include(split_first(cna, "("), gene_wlst))
                  IN [j \in 1..Len(cnas) |->
                        Mutation(arrs[i][1], split_first(cnas[j], "("),
                                 get_mut_type(cnas[j]))]])
    IN IF \E k \in 1..Len(muts) : muts[k].mut_type = ValueError
       THEN Raise(ValueError)
       ELSE Ok(muts)

----------------------------------------------------------------------------
(* load_fusions and include_fusion *)

include_fusion_drop(sample_wlst, gene_wlst, sample, gene1, gene2) ==
    IF truthy(sample_wlst) /\ sample \notin sample_wlst.items THEN "False"
    ELSE IF ~truthy(gene_wlst) THEN "True"
    ELSE IF gene1 \in gene_wlst.items /\ gene2 \in gene_wlst.items THEN "True"
    ELSE "False"

include_fusion(sample_wlst, gene_wlst, sample, gene1, gene2) ==
    IF truthy(sample_wlst) /\ sample \notin sample_wlst.items THEN "False"
    ELSE IF ~truthy(gene_wlst) THEN "True"
    ELSE IF gene1 \notin gene_wlst.items /\ gene2 \notin gene_wlst.items
         THEN "False"
    ELSE IF \/ (gene1 \in gene_wlst.items /\ ~(gene2 \in gene_wlst.items))
            \/ (gene2 \in gene_wlst.items /\ ~(gene1 \in gene_wlst.items))
         THEN ValueError
    ELSE "True"

(* the list comprehension of load_fusions, line by line: include_fusion    *)
(* takes exactly three columns, and the first line that raises ends it     *)
RECURSIVE fusion_rows(_, _, _, _)
fusion_rows(arrs, gene_wlst, sample_wlst, acc) ==
    IF arrs = <<>> THEN Ok(acc)
    ELSE LET arr == Head(arrs)
         IN IF Len(arr) # 3 THEN Raise("TypeError")
            ELSE LET r == include_fusion(sample_wlst, gene_wlst,
                                         arr[1], arr[2], arr[3])
                 IN IF r = ValueError THEN Raise(ValueError)
                    ELSE fusion_rows(Tail(arrs), gene_wlst, sample_wlst,
                            IF r = "True"
                            THEN Append(acc, Fusion(arr[1], <<arr[2], arr[3]>>))
                            ELSE acc)

load_fusions(fusion_file, gene_wlst, sample_wlst) ==
    fusion_rows(non_comment(fusion_file), gene_wlst, sample_wlst, <<>>)

----------------------------------------------------------------------------
(* Input files of the parsers *)

GeneColumns ==
    {<<>>} \cup {<<g>> : g \in Genes} \cup {<<g, h>> : g \in Genes, h \in Genes}

SnvLines ==
    {<<CommentCol, GeneP>>} \cup {<<s>> \o gs : s \in Samples, gs \in GeneColumns}

InactivatingLines ==
    {<<CommentCol, SampleS>>, <<GeneP>>}
        \cup {<<g, s>> : g \in Genes, s \in Samples}

CnaTokens == {TokPA, TokPD, TokQD, TokQX, TokP}

CnaColumns ==
    {<<>>, <<TokPA, TokQD>>, <<TokPA, TokQX>>} \cup {<<t>> : t \in CnaTokens}

CnaLines ==
    {<<CommentCol, TokQX>>} \cup {<<s>> \o ts : s \in Samples, ts \in CnaColumns}

FusionLines ==
    {<<CommentCol, GeneP, GeneQ>>}
        \cup {<<s, g, h>> : s \in Samples, g \in Genes, h \in Genes}

Files(Lines) == SeqsUpTo(Lines, MaxLines)

----------------------------------------------------------------------------
(* The parsers as actions *)

ParserCall(op, f, gw, sw) ==
    [op |-> op, file |-> f, gene_wlst |-> gw, sample_wlst |-> sw]

CallLoadSnvs ==
    /\ pc = "idle"
    /\ \E f \in Files(SnvLines), gw \in Whitelists(Genes), sw \in Whitelists(Samples) :
          /\ call' = ParserCall("load_snvs", f, gw, sw)
          /\ ret' = load_snvs(f, gw, sw)
    /\ pc' = "done"
    /\ UNCHANGED fs

CallLoadInactivatingSnvs ==
    /\ pc = "idle"
    /\ \E f \in Files(InactivatingLines), gw \in Whitelists(Genes),
          sw \in Whitelists(Samples) :
          /\ call' = ParserCall("load_inactivating_snvs", f, gw, sw)
          /\ ret' = load_inactivating_snvs(f, gw, sw)
    /\ pc' = "done"
    /\ UNCHANGED fs

CallLoadCnas ==
    /\ pc = "idle"
    /\ \E f \in Files(CnaLines), gw \in Whitelists(Genes), sw \in Whitelists(Samples) :
          /\ call' = ParserCall("load_cnas", f, gw, sw)
          /\ ret' = load_cnas(f, gw, sw)
    /\ pc' = "done"
    /\ UNCHANGED fs

CallLoadFusions ==
    /\ pc = "idle"
    /\ \E f \in Files(FusionLines), gw \in Whitelists(Genes), sw \in Whitelists(Samples) :
          /\ call' = ParserCall("load_fusions", f, gw, sw)
          /\ ret' = load_fusions(f, gw, sw)
    /\ pc' = "done"
    /\ UNCHANGED fs

Init ==
    /\ pc = "idle"
    /\ call = NoCall
    /\ ret = Raise("none")
    /\ fs = EmptyFs

NextParsers ==
    \/ CallLoadSnvs
    \/ CallLoadInactivatingSnvs
    \/ CallLoadCnas
    \/ CallLoadFusions

SpecParsers == Init /\ [][NextParsers]_vars

----------------------------------------------------------------------------
(* load_oncodrive_data: the merge of the fm, cis-amp and cis-del scores    *)

(* float(text) for the score texts of the model, in tenths; "-" and ""     *)
(* are no numbers                                                          *)
ScoreTexts == {<<"0", ".", "2">>, <<"0", ".", "3">>, <<"0", ".", "5">>,
               <<"1", ".", "0">>, <<"-", "0">>}

float(text) ==
    CASE text = <<"0", ".", "2">> -> 2
      [] text = <<"0", ".", "3">> -> 3
      [] text = <<"0", ".", "5">> -> 5
      [] text = <<"1", ".", "0">> -> 10
      [] text = <<"-", "0">> -> 0

(* one = lambda: 1, the default of the three defaultdicts: the number 1,    *)
(* in tenths                                                               *)
one == 10

(* d.update(pairs): later pairs overwrite earlier ones *)
dict_update(d, pairs) ==
    LET keys == {pairs[i][1] : i \in 1..Len(pairs)}
        last(k) == CHOOSE i \in 1..Len(pairs) :
                      /\ pairs[i][1] = k
                      /\ \A j \in (i + 1)..Len(pairs) : pairs[j][1] # k
    IN [k \in DOMAIN d \cup keys |-> IF k \in keys THEN pairs[last(k)][2] ELSE d[k]]

EmptyDict == [k \in {} |-> 0]

(* d[g] on a defaultdict(one) *)
defaultdict_get(d, g) == IF g \in DOMAIN d THEN d[g] ELSE one

merged_genes_common(gene2cis_del, gene2cis_amp, gene2fm) ==
    DOMAIN gene2cis_del \cap DOMAIN gene2cis_amp \cap DOMAIN gene2fm

merged_genes(gene2cis_del, gene2cis_amp, gene2fm) ==
    DOMAIN gene2cis_del \cup DOMAIN gene2cis_amp \cup DOMAIN gene2fm

FmSkipped == {<<>>, <<"-", "0">>, <<"-">>}

load_oncodrive_data(fm_scores, cis_amp_scores, cis_del_scores) ==
    LET fm_arrs == non_comment(fm_scores)
        fm_used == SelectSeq(fm_arrs, LAMBDA arr : arr[3] \notin FmSkipped)
        amp_arrs == non_comment(cis_amp_scores)
        del_arrs == non_comment(cis_del_scores)
        bad(arrs, col(_)) == \E i \in 1..Len(arrs) : col(arrs[i]) \notin ScoreTexts
        third(arr) == arr[3]
        last(arr) == arr[Len(arr)]
    IN IF \E i \in 1..Len(fm_arrs) : Len(fm_arrs[i]) < 3 THEN Raise("IndexError")
       ELSE IF bad(fm_used, third) \/ bad(amp_arrs, last) \/ bad(del_arrs, last)
       THEN Raise(ValueError)
       ELSE LET gene2fm == dict_update(EmptyDict,
                              [i \in 1..Len(fm_used) |->
                                  <<fm_used[i][2], float(fm_used[i][3])>>])
                gene2cis_amp == dict_update(EmptyDict,
                              [i \in 1..Len(amp_arrs) |->
                                  <<amp_arrs[i][1], float(last(amp_arrs[i]))>>])
                gene2cis_del == dict_update(EmptyDict,
                              [i \in 1..Len(del_arrs) |->
                                  <<del_arrs[i][1], float(last(del_arrs[i]))>>])
                genes == merged_genes(gene2cis_del, gene2cis_amp, gene2fm)
            IN Ok([g \in genes |->
                     [del |-> defaultdict_get(gene2cis_del, g),
                      amp |-> defaultdict_get(gene2cis_amp, g),
                      fm |-> defaultdict_get(gene2fm, g)]])

IdCol == <<"i", "d">>

FmRows ==
    {<<CommentCol, GeneP, <<"0", ".", "2">>>>}
        \cup {<<IdCol, g, t>> : g \in Genes,
                                t \in {<<"0", ".", "2">>, <<"0", ".", "3">>, <<"-">>, <<"-", "0">>}}

AmpRows == {<<g, <<"0", ".", "5">>>> : g \in Genes}

DelRows == {<<GeneP, <<"0", ".", "3">>>>, <<GeneQ, <<"-", "0">>>>, <<GeneQ, <<"-">>>>}

CallLoadOncodriveData ==
    /\ pc = "idle"
    /\ \E fm \in Files(FmRows), amp \in Files(AmpRows), del \in Files(DelRows) :
          /\ call' = [op |-> "load_oncodrive_data", fm_scores |-> fm,
                      cis_amp_scores |-> amp, cis_del_scores |-> del]
          /\ ret' = load_oncodrive_data(fm, amp, del)
    /\ pc' = "done"
    /\ UNCHANGED fs

NextMerge == CallLoadOncodriveData

SpecMerge == Init /\ [][NextMerge]_vars

----------------------------------------------------------------------------
(* load_gene_order *)

Whitespace == {" ", "\t", "\n"}

(* line.split(): the maximal runs of characters that are not whitespace *)
RECURSIVE split_ws(_, _, _)
split_ws(line, word, acc) ==
    IF line = <<>>
    THEN IF word = <<>> THEN acc ELSE Append(acc, word)
    ELSE IF Head(line) \in Whitespace
         THEN split_ws(Tail(line), <<>>, IF word = <<>> THEN acc ELSE Append(acc, word))
         ELSE split_ws(Tail(line), Append(word, Head(line)), acc)

split(line) == split_ws(line, <<>>, <<>>)

next_cid_stuck(cid) == cid

next_cid(cid) == cid + 1

RECURSIVE gene_order_loop(_, _, _, _)
gene_order_loop(lines, cid, chromo2genes, gene2chromo) ==
    IF lines = <<>>
    THEN Ok([gene2chromo |-> gene2chromo, chromo2genes |-> chromo2genes])
    ELSE LET genes == split(Head(lines))
         IN gene_order_loop(Tail(lines), next_cid(cid),
                [c \in DOMAIN chromo2genes \cup {cid} |->
                    IF c = cid THEN genes ELSE chromo2genes[c]],
                dict_update(gene2chromo,
                            [i \in 1..Len(genes) |-> <<genes[i], cid>>]))

load_gene_order(gene_order_file) ==
    gene_order_loop(gene_order_file, 0, EmptyDict, EmptyDict)

OrderChars == {"A", "B", " "}

OrderLines ==
    SeqsUpTo(OrderChars, MaxLineLen) \cup {<<"A", " ", "B">>, <<"B", "\t", "A", "\n">>}

CallLoadGeneOrder ==
    /\ pc = "idle"
    /\ \E f \in Files(OrderLines) :
          /\ call' = [op |-> "load_gene_order", file |-> f]
          /\ ret' = load_gene_order(f)
    /\ pc' = "done"
    /\ UNCHANGED fs

NextOrder == CallLoadGeneOrder

SpecOrder == Init /\ [][NextOrder]_vars

----------------------------------------------------------------------------
(* load_network and load_hdf5 *)

(* a byte string as h5py returns it, and bytes.decode('utf8') *)
Bytes(text) == [bytes |-> text]

decode(b) == b.bytes

(* the bundle's fields after load_hdf5 has decoded the node names and the  *)
(* network name and turned the edge array into strings                     *)
load_hdf5(h5) ==
    [k \in DOMAIN h5 |->
        IF k = "nodes" THEN [i \in 1..Len(h5.nodes) |-> decode(h5.nodes[i])]
        ELSE IF k = "network_name" THEN decode(h5.network_name)
        ELSE IF k = "edges"
             THEN [i \in 1..Len(h5.edges) |->
                      <<decode(h5.edges[i][1]), decode(h5.edges[i][2])>>]
        ELSE h5[k]]

(* dict(zip(range(n), nodes)): zip stops at the shorter of the two *)
zip_range(n, nodes) ==
    LET m == IF n < Len(nodes) THEN n ELSE Len(nodes)
    IN [i \in 0..(m - 1) |-> nodes[i + 1]]

(* nx.Graph().add_edges_from(edges): the nodes are the endpoints *)
add_edges_from(edges) ==
    [nodes |-> UNION {{edges[i][1], edges[i][2]} : i \in 1..Len(edges)},
     edges |-> {{edges[i][1], edges[i][2]} : i \in 1..Len(edges)}]

load_network(h5, infmat_name) ==
    LET H == load_hdf5(h5)
    IN IF infmat_name \notin DOMAIN H THEN Raise("KeyError")
       ELSE LET PPR == H[infmat_name]
            IN Ok([PPR |-> PPR,
                   indexToGene |-> zip_range(PPR.shape[1], H.nodes),
                   G |-> add_edges_from(H.edges),
                   network_name |-> H.network_name])

NodeNames == {"A", "B"}

EdgeNames == {"A", "B", "X"}

Bundles ==
    {[nodes |-> [i \in DOMAIN ns |-> Bytes(ns[i])],
      edges |-> [i \in DOMAIN es |-> <<Bytes(es[i][1]), Bytes(es[i][2])>>],
      network_name |-> Bytes("net"),
      PPR |-> [shape |-> <<r, c>>]] :
        ns \in SeqsUpTo(NodeNames, MaxNodes) \ {<<>>},
        es \in SeqsUpTo(EdgeNames \X EdgeNames, MaxEdges),
        r \in 1..(MaxNodes + 1), c \in 1..(MaxNodes + 1)}

CallLoadNetwork ==
    /\ pc = "idle"
    /\ \E h5 \in Bundles, infmat_name \in {"PPR", "other"} :
          /\ call' = [op |-> "load_network", bundle |-> h5, infmat_name |-> infmat_name]
          /\ ret' = load_network(h5, infmat_name)
    /\ pc' = "done"
    /\ UNCHANGED fs

NextNetwork == CallLoadNetwork

SpecNetwork == Init /\ [][NextNetwork]_vars

----------------------------------------------------------------------------
(* Files on disk.  A path is a text whose separators "/" and "." are       *)
(* characters of their own; a JSON file holds its members in the order     *)
(* they were written, a text file holds its lines.                         *)

HEAT_JSON == <<"heat", ".", "json">>

JSON_OUTPUT == <<"results", ".", "json">>

COMPONENTS_TSV == <<"components", ".", "tsv">>

SIGNIFICANCE_TSV == <<"significance", ".", "tsv">>

(* os.path.abspath: the paths of the model are absolute and normalised *)
abspath(path) == path

(* str(delta) for the deltas of the model *)
str(n) == <<"0", "1", "2", "3", "4">>[n + 1]

(* s.split(sep)[-1]: the text after the last occurrence of sep *)
split_last(s, sep) ==
    IF \E i \in 1..Len(s) : s[i] = sep
    THEN LET k == CHOOSE i \in 1..Len(s) :
                     s[i] = sep /\ \A j \in (i + 1)..Len(s) : s[j] # sep
         IN SubSeq(s, k + 1, Len(s))
    ELSE s

TextFile(lines) == [kind |-> "text", lines |-> lines]

JsonFile(members) == [kind |-> "json", members |-> members]

write(disk, path, content) ==
    [disk EXCEPT !.files =
        [q \in DOMAIN disk.files \cup {path} |->
            IF q = path THEN content ELSE disk.files[q]]]

(* the items of a dict, in one fixed order *)
RECURSIVE items_from(_, _)
items_from(d, keys) ==
    IF keys = {} THEN <<>>
    ELSE LET k == CHOOSE x \in keys : TRUE
         IN <<<<k, d[k]>>>> \o items_from(d, keys \ {k})

items(d) == items_from(d, DOMAIN d)

(* json.dump of a dict whose values are dicts, and json.load of it *)
json_dump(pairs) ==
    JsonFile([i \in 1..Len(pairs) |-> <<pairs[i][1], items(pairs[i][2])>>])

json_load(content) ==
    LET top == dict_update(EmptyDict, content.members)
    IN [k \in DOMAIN top |-> dict_update(EmptyDict, top[k])]

----------------------------------------------------------------------------
(* load_heat_json, load_heat_tsv, load_samples, load_genes *)

load_heat_json(disk, heat_file) ==
    IF heat_file \notin DOMAIN disk.files THEN Raise("FileNotFoundError")
    ELSE IF disk.files[heat_file].kind # "json" THEN Raise(ValueError)
    ELSE LET blob == json_load(disk.files[heat_file])
         IN IF "heat" \notin DOMAIN blob \/ "parameters" \notin DOMAIN blob
            THEN Raise("KeyError")
            ELSE Ok(<<blob["heat"], blob["parameters"]>>)

load_heat_tsv(disk, heat_file) ==
    IF heat_file \notin DOMAIN disk.files THEN Raise("FileNotFoundError")
    ELSE LET arrs == disk.files[heat_file].lines
         IN IF \E i \in 1..Len(arrs) : Len(arrs[i]) < 2 THEN Raise("IndexError")
            ELSE IF \E i \in 1..Len(arrs) : arrs[i][2] \notin ScoreTexts
            THEN Raise(ValueError)
            ELSE Ok(dict_update(EmptyDict,
                        [i \in 1..Len(arrs) |-> <<arrs[i][1], float(arrs[i][2])>>]))

load_samples(disk, sample_file) ==
    IF sample_file \notin DOMAIN disk.files THEN Raise("FileNotFoundError")
    ELSE LET arrs == disk.files[sample_file].lines
         IN IF \E i \in 1..Len(arrs) : Len(arrs[i]) = 0 THEN Raise("IndexError")
            ELSE Ok(SetWl({arrs[i][1] : i \in 1..Len(arrs)}))

(* l.strip() of a line that holds one word *)
load_genes(disk, gene_file) ==
    IF gene_file \notin DOMAIN disk.files THEN Raise("FileNotFoundError")
    ELSE LET arrs == disk.files[gene_file].lines
         IN Ok(SetWl({IF arrs[i] = <<>> THEN <<>> ELSE arrs[i][1] : i \in 1..Len(arrs)}))

(* with open(snv_file) as f / with open(cna_file) as f *)
open_snvs(disk, snv_file, gene_wlst, sample_wlst) ==
    IF snv_file \notin DOMAIN disk.files THEN Raise("FileNotFoundError")
    ELSE load_snvs(disk.files[snv_file].lines, gene_wlst, sample_wlst)

open_cnas(disk, cna_file, gene_wlst, sample_wlst) ==
    IF cna_file \notin DOMAIN disk.files THEN Raise("FileNotFoundError")
    ELSE load_cnas(disk.files[cna_file].lines, gene_wlst, sample_wlst)

----------------------------------------------------------------------------
(* load_heat_file *)

MUTATION_HEAT == <<"load_mutation_heat">>

Cancer == <<"Cancer">>

NoMutations == <<<<>>, <<>>, EmptyDict>>

(* the sample types if the sample whitelist were never consulted *)
default_sample_types_observed(samples, snvs, cnas) ==
    [s \in {snvs[i].sample : i \in 1..Len(snvs)}
               \cup {cnas[i].sample : i \in 1..Len(cnas)} |-> Cancer]

(* lines 478-480: the sample types when no sample type file is named *)
default_sample_types(samples, snvs, cnas) ==
    LET observed == {snvs[i].sample : i \in 1..Len(snvs)}
                        \cup {cnas[i].sample : i \in 1..Len(cnas)}
        used == IF truthy(samples) THEN samples.items ELSE observed
    IN [s \in used |-> Cancer]

(* lines 467-482: the mutation data of a heat JSON made by load_mutation_heat *)
load_mutation_data(disk, heat_params) ==
    IF "sample_file" \notin DOMAIN heat_params THEN Raise("KeyError")
    ELSE LET samples == IF heat_params["sample_file"] # <<>>
                        THEN load_samples(disk, heat_params["sample_file"])
                        ELSE Ok(NoneWl)
    IN IF samples.status # "ok" THEN samples
    ELSE IF "gene_file" \notin DOMAIN heat_params THEN Raise("KeyError")
    ELSE LET genes == IF heat_params["gene_file"] # <<>>
                      THEN load_genes(disk, heat_params["gene_file"])
                      ELSE Ok(NoneWl)
    IN IF genes.status # "ok" THEN genes
    ELSE IF "snv_file" \notin DOMAIN heat_params THEN Raise("KeyError")
    ELSE LET snvs == IF heat_params["snv_file"] # <<>>
                     THEN open_snvs(disk, heat_params["snv_file"],
                                    genes.value, samples.value)
                     ELSE Ok(<<>>)
    IN IF snvs.status # "ok" THEN snvs
    ELSE IF "cna_file" \notin DOMAIN heat_params THEN Raise("KeyError")
    ELSE LET cnas == IF heat_params["cna_file"] # <<>>
                     THEN open_cnas(disk, heat_params["cna_file"],
                                    genes.value, samples.value)
                     ELSE Ok(<<>>)
    IN IF cnas.status # "ok" THEN cnas
    ELSE IF "sample_type_file" \in DOMAIN heat_params
              /\ heat_params["sample_type_file"] # <<>>
         THEN Raise("NameError")
    ELSE Ok(<<snvs.value, cnas.value,
              default_sample_types(samples.value, snvs.value, cnas.value)>>)

load_heat_file(disk, heat_file, json_heat) ==
    IF json_heat
    THEN IF heat_file \notin DOMAIN disk.files THEN Raise("FileNotFoundError")
         ELSE IF disk.files[heat_file].kind # "json" THEN Raise(ValueError)
         ELSE LET obj == json_load(disk.files[heat_file])
         IN IF "parameters" \notin DOMAIN obj THEN Raise("KeyError")
         ELSE LET heat_params == obj["parameters"]
         IN IF "name" \notin DOMAIN heat_params THEN Raise("KeyError")
         ELSE IF "heat" \notin DOMAIN obj THEN Raise("KeyError")
         ELSE IF "heat_fn" \in DOMAIN heat_params
                   /\ heat_params["heat_fn"] = MUTATION_HEAT
              THEN LET mutations == load_mutation_data(disk, heat_params)
                   IN IF mutations.status # "ok" THEN mutations
                      ELSE Ok(<<obj["heat"], heat_params["name"], mutations.value>>)
              ELSE Ok(<<obj["heat"], heat_params["name"], NoMutations>>)
    ELSE LET heat == load_heat_tsv(disk, heat_file)
         IN IF heat.status # "ok" THEN heat
            ELSE Ok(<<heat.value,
                      split_first(split_last(heat_file, "/"), "."),
                      NoMutations>>)

----------------------------------------------------------------------------
(* output_hotnet2_run *)

(* hotnet2.component_sizes: how many components there are of each size *)
component_sizes(ccs) ==
    [n \in {Len(ccs[i]) : i \in 1..Len(ccs)} |->
        Cardinality({i \in 1..Len(ccs) : Len(ccs[i]) = n})]

write_significance_as_tsv(disk, output_file, sizes2stats) ==
    write(disk, output_file,
          TextFile(<<<<"Size", "Expected", "Actual", "p-value">>>> \o items(sizes2stats)))

write_components_as_tsv(disk, output_file, ccs) ==
    write(disk, output_file, TextFile(ccs))

(* lines 499-523, one delta after the other; st holds the disk, the        *)
(* parameter heat_file and the dict params, which the loop body assigns    *)
RECURSIVE output_deltas(_, _, _, _, _, _, _)
output_deltas(result, st, network_name, heat, heat_name, using_json_heat, output_dir) ==
    IF result = <<>> THEN Ok(st)
    ELSE LET r == Head(result)
             delta_out_dir == abspath(output_dir \o <<"/", "delta_", str(r.delta)>>)
         IN IF output_dir \notin st.disk.dirs /\ delta_out_dir \notin st.disk.dirs
            THEN Raise("FileNotFoundError")
            ELSE
         LET d0 == [st.disk EXCEPT !.dirs = @ \cup {delta_out_dir}]
             heat_path == abspath(delta_out_dir) \o <<"/">> \o HEAT_JSON
             d1 == IF ~using_json_heat
                   THEN write(d0, heat_path,
                              json_dump(<<<<"heat", heat>>,
                                          <<"parameters",
                                            [k \in {"heat_file"} |-> st.heat_file]>>>>))
                   ELSE d0
             heat_file == IF ~using_json_heat THEN heat_path ELSE st.heat_file
             d2 == write_significance_as_tsv(d1,
                       delta_out_dir \o <<"/">> \o SIGNIFICANCE_TSV, r.sizes2stats)
             params == [k \in DOMAIN st.params \cup {"heat_name", "network_name", "delta"} |->
                          IF k = "heat_name" THEN heat_name
                          ELSE IF k = "network_name" THEN network_name
                          ELSE IF k = "delta" THEN str(r.delta)
                          ELSE st.params[k]]
             d3 == write(d2, delta_out_dir \o <<"/">> \o JSON_OUTPUT,
                         JsonFile(<<<<"parameters", items(params)>>,
                                    <<"sizes", items(component_sizes(r.ccs))>>,
                                    <<"components", r.ccs>>,
                                    <<"statistics", items(r.sizes2stats)>>>>))
             d4 == write_components_as_tsv(d3,
                       abspath(delta_out_dir) \o <<"/">> \o COMPONENTS_TSV, r.ccs)
         IN output_deltas(Tail(result),
                          [disk |-> d4, heat_file |-> heat_file, params |-> params],
                          network_name, heat, heat_name, using_json_heat, output_dir)

output_hotnet2_run(disk, result, params, network_name, heat, heat_name, heat_file, using_json_heat, output_dir) ==
    output_deltas(result, [disk |-> disk, heat_file |-> heat_file, params |-> params],
                  network_name, heat, heat_name, using_json_heat, output_dir)

----------------------------------------------------------------------------
(* Inputs of the heat loaders and of the writer *)

OutDir == <<"/", "out">>

HeatTsvPath == <<"/", "in", "/", "heat", ".", "tsv">>

HeatJsonPath == <<"/", "in", "/", "heat", ".", "json">>

SamplePath == <<"/", "in", "/", "samples">>

GenePath == <<"/", "in", "/", "genes">>

SnvPath == <<"/", "in", "/", "snvs">>

CnaPath == <<"/", "in", "/", "cnas">>

TypePath == <<"/", "in", "/", "types">>

HeatScores == {0, 5}

HeatMaps == UNION {[D -> HeatScores] : D \in (SUBSET Genes) \ {{}}}

Deltas == {1, 2}

Results ==
    {[i \in DOMAIN ds |->
        [ccs |-> <<<<GeneP, GeneQ>>>>,
         sizes2stats |-> [n \in {<<"2">>} |-> <<"0", ".", "5">>],
         delta |-> ds[i]]] : ds \in SeqsUpTo(Deltas, MaxDeltas)}

RunParams == [k \in {"network_file"} |-> <<"/", "in", "/", "net">>]

OutDisk == [dirs |-> {OutDir}, files |-> [p \in {} |-> <<>>]]

(* the parameters object of a heat JSON: every field may be missing, may   *)
(* be empty (None or "") or may hold a value                               *)
Field == {"absent", "empty", "set"}

HeatParams(name, heat_fn, sample, gene, snv, cna, type) ==
    LET all == <<<<"name", name, <<"h">>>>,
                 <<"heat_fn", heat_fn, MUTATION_HEAT>>,
                 <<"sample_file", sample, SamplePath>>,
                 <<"gene_file", gene, GenePath>>,
                 <<"snv_file", snv, SnvPath>>,
                 <<"cna_file", cna, CnaPath>>,
                 <<"sample_type_file", type, TypePath>>>>
        kept == SelectSeq(all, LAMBDA e : e[2] # "absent")
    IN dict_update(EmptyDict,
           [i \in 1..Len(kept) |->
               <<kept[i][1], IF kept[i][2] = "set" THEN kept[i][3] ELSE <<>>>>])

SampleFiles == {<<>>, <<<<SampleS>>, <<SampleT>>>>}

SnvFiles == {<<<<SampleS, GeneP>>>>, <<<<SampleS, GeneP>>, <<SampleT, GeneQ>>>>}

CnaFiles == {<<<<SampleS, TokPA>>>>, <<<<SampleT, TokQX>>>>}

InDisk(heat_params, heat, samples, snvs, cnas) ==
    [dirs |-> {<<"/", "in">>},
     files |->
        [p \in {HeatJsonPath, HeatTsvPath, SamplePath, GenePath, SnvPath, CnaPath,
                TypePath} |->
            IF p = HeatJsonPath
            THEN json_dump(<<<<"heat", heat>>, <<"parameters", heat_params>>>>)
            ELSE IF p = HeatTsvPath
            THEN TextFile(<<<<GeneP, <<"0", ".", "5">>>>>>)
            ELSE IF p = SamplePath THEN TextFile(samples)
            ELSE IF p = GenePath THEN TextFile(<<<<GeneP>>>>)
            ELSE IF p = SnvPath THEN TextFile(snvs)
            ELSE IF p = CnaPath THEN TextFile(cnas)
            ELSE TextFile(<<<<SampleS, <<"BRCA">>>>>>)]]

----------------------------------------------------------------------------
(* The heat loaders and the writer as actions *)

CallLoadHeatFile ==
    /\ pc = "idle"
    /\ \E name \in Field \ {"empty"}, heat_fn \in Field, sample \in Field,
          gene \in Field, snv \in Field, cna \in Field, type \in Field,
          samples \in SampleFiles, snvs \in SnvFiles, cnas \in CnaFiles,
          json_heat \in BOOLEAN :
          LET heat_params == HeatParams(name, heat_fn, sample, gene, snv, cna, type)
              disk == InDisk(heat_params, [g \in {GeneP} |-> 5], samples, snvs, cnas)
              heat_file == IF json_heat THEN HeatJsonPath ELSE HeatTsvPath
          IN /\ fs' = disk
             /\ call' = [op |-> "load_heat_file", heat_file |-> heat_file,
                         json_heat |-> json_heat, heat_params |-> heat_params]
             /\ ret' = load_heat_file(disk, heat_file, json_heat)
    /\ pc' = "done"

CallOutputHotnet2Run ==
    /\ pc = "idle"
    /\ \E result \in Results, heat \in HeatMaps, using_json_heat \in BOOLEAN :
          LET out == output_hotnet2_run(OutDisk, result, RunParams, <<"net">>, heat,
                                        <<"h">>, HeatTsvPath, using_json_heat, OutDir)
          IN /\ call' = [op |-> "output_hotnet2_run", result |-> result, heat |-> heat,
                         heat_file |-> HeatTsvPath, using_json_heat |-> using_json_heat,
                         output_dir |-> OutDir]
             /\ ret' = [status |-> out.status, value |-> <<>>]
             /\ fs' = IF out.status = "ok" THEN out.value.disk ELSE OutDisk
    /\ pc' = "written"

(* reading back a heat JSON that output_hotnet2_run wrote *)
HeatJsonsWritten ==
    {p \in DOMAIN fs.files : Len(p) >= 3 /\ SubSeq(p, Len(p) - 2, Len(p)) = HEAT_JSON}

ReloadHeatJson ==
    /\ pc = "written"
    /\ \E p \in HeatJsonsWritten :
          /\ call' = [op |-> "load_heat_json", heat_file |-> p, written |-> call]
          /\ ret' = load_heat_json(fs, p)
    /\ pc' = "done"
    /\ UNCHANGED fs

ReloadHeatFile ==
    /\ pc = "written"
    /\ \E p \in HeatJsonsWritten :
          /\ call' = [op |-> "load_heat_file", heat_file |-> p, json_heat |-> TRUE,
                      written |-> call]
          /\ ret' = load_heat_file(fs, p, TRUE)
    /\ pc' = "done"
    /\ UNCHANGED fs

NextHeat ==
    \/ CallLoadHeatFile
    \/ CallOutputHotnet2Run
    \/ ReloadHeatJson
    \/ ReloadHeatFile

SpecHeat == Init /\ [][NextHeat]_vars

----------------------------------------------------------------------------
(* Vocabulary of the properties of the parsers *)

Done(op) == pc = "done" /\ call.op = op

(* the (line, column) occurrences of a sample-first file, in file order *)
LexLess(a, b) == a[1] < b[1] \/ (a[1] = b[1] /\ a[2] < b[2])

Rank(o, Occ) == Cardinality({p \in Occ : LexLess(p, o)}) + 1

Occurrences(f) ==
    {<<i, j>> \in (1..Len(f)) \X (2..4) : ~startswith_hash(f[i]) /\ j <= Len(f[i])}

(* how many records a file holds when nothing is filtered *)
Unfiltered(op, f) ==
    IF op \in {"load_snvs", "load_cnas"}
    THEN Cardinality(Occurrences(f))
    ELSE Len(non_comment(f))

(* a whitelist lets an item through: absent, or empty, or holding the item *)
Passes(item, wl) == ~wl.given \/ wl.items = {} \/ item \in wl.items

(* the text of a CNA token before its first "(" *)
BeforeParen(t) ==
    CHOOSE p \in {SubSeq(t, 1, n) : n \in 0..Len(t)} :
        /\ "(" \notin Range(p)
        /\ (Len(p) = Len(t) \/ t[Len(p) + 1] = "(")

(* a CNA token with its last three characters removed *)
SuffixStripped(t) == SubSeq(t, 1, Len(t) - 3)

IsAmp(t) == Len(t) >= 3 /\ t[Len(t) - 2] = "(" /\ t[Len(t) - 1] = "A" /\ t[Len(t)] = ")"

IsDel(t) == Len(t) >= 3 /\ t[Len(t) - 2] = "(" /\ t[Len(t) - 1] = "D" /\ t[Len(t)] = ")"

WhitelistParsers ==
    {"load_snvs", "load_inactivating_snvs", "load_cnas", "load_fusions"}

----------------------------------------------------------------------------
(* C1: for every whitelist-filtered parser, None as whitelist gives what   *)
(* no filter gives (every record of the file), and an empty set as gene or *)
(* sample whitelist gives the empty list.                                  *)
C1_NoneKeepsAllEmptyKeepsNone ==
    (pc = "done" /\ call.op \in WhitelistParsers) =>
        /\ (call.gene_wlst = NoneWl /\ call.sample_wlst = NoneWl /\ ret.status = "ok")
              => Len(ret.value) = Unfiltered(call.op, call.file)
        /\ (call.gene_wlst = SetWl({}) \/ call.sample_wlst = SetWl({}))
              => ret = Ok(<<>>)

----------------------------------------------------------------------------
(* C2 as claimed: a non-comment fusion line with exactly one gene in the   *)
(* gene whitelist makes load_fusions raise and return nothing; with a gene *)
(* whitelist that holds the genes of the file, or with no gene whitelist,  *)
(* the load succeeds and the fusion of the line is in the result.          *)
C2_HalfWhitelistedAlwaysRaises ==
    Done("load_fusions") =>
        LET f == call.file
            gw == call.gene_wlst
            Lines == {i \in 1..Len(f) : ~startswith_hash(f[i])}
        IN /\ (\E i \in Lines :
                   gw.given /\ (f[i][2] \in gw.items) # (f[i][3] \in gw.items))
                 => (ret.status # "ok" /\ ret.value = <<>>)
           /\ (~gw.given \/ \A i \in Lines : {f[i][2], f[i][3]} \subseteq gw.items)
                 => /\ ret.status = "ok"
                    /\ \A i \in Lines :
                          Fusion(f[i][1], <<f[i][2], f[i][3]>>) \in Range(ret.value)

(* C2 amended: load_fusions raises exactly when some non-comment line      *)
(* whose sample passes the sample whitelist has exactly one gene in a      *)
(* non-empty gene whitelist; a line excluded by the sample whitelist is    *)
(* skipped without error.  When it returns, the result holds the fusion of *)
(* every line whose sample passes and whose genes are both whitelisted (or *)
(* there is no gene whitelist), and nothing is returned when it raises.    *)
C2_HalfWhitelistedRaisesIfSamplePasses ==
    Done("load_fusions") =>
        LET f == call.file
            gw == call.gene_wlst
            sw == call.sample_wlst
            Live == {i \in 1..Len(f) : ~startswith_hash(f[i]) /\ Passes(f[i][1], sw)}
            Half(i) == /\ gw.given
                       /\ (f[i][2] \in gw.items) # (f[i][3] \in gw.items)
            Both(i) == \/ ~gw.given \/ gw.items = {}
                       \/ {f[i][2], f[i][3]} \subseteq gw.items
        IN /\ ret.status \in {"ok", ValueError}
           /\ ret.status = ValueError <=> \E i \in Live : Half(i)
           /\ ret.status = ValueError => ret.value = <<>>
           /\ ret.status = "ok" =>
                /\ \A i \in Live :
                      Both(i) => Fusion(f[i][1], <<f[i][2], f[i][3]>>) \in Range(ret.value)
                /\ \A k \in 1..Len(ret.value) :
                      \E i \in Live : /\ Both(i)
                                      /\ ret.value[k] = Fusion(f[i][1], <<f[i][2], f[i][3]>>)

(* a valid line, then a half-whitelisted line whose sample passes: raised  *)
C2_Witness ==
    /\ Done("load_fusions")
    /\ ret.status = ValueError
    /\ Len(call.file) = 2
    /\ call.gene_wlst = SetWl({GeneP})
    /\ call.file[1] = <<SampleS, GeneP, GeneP>>
    /\ call.file[2] = <<SampleS, GeneP, GeneQ>>
    /\ call.sample_wlst = SetWl({SampleS})

----------------------------------------------------------------------------
(* C3 as claimed: tokens ending "(A)" / "(D)" become AMP / DEL records of  *)
(* the token without its suffix, and any other token on a non-comment line *)
(* makes load_cnas raise, whatever the whitelists.                         *)
C3_BadSuffixAlwaysRaises ==
    Done("load_cnas") =>
        LET f == call.file
        IN /\ (\E o \in Occurrences(f) :
                  ~IsAmp(f[o[1]][o[2]]) /\ ~IsDel(f[o[1]][o[2]]))
                 => ret.status # "ok"
           /\ \A k \in 1..Len(ret.value) :
                 \E o \in Occurrences(f) :
                    LET t == f[o[1]][o[2]]
                    IN /\ IsAmp(t) \/ IsDel(t)
                       /\ ret.value[k] = Mutation(f[o[1]][1], SuffixStripped(t),
                                                  IF IsAmp(t) THEN AMP ELSE DEL)

(* C3 amended: load_cnas raises a format error exactly when some token     *)
(* that passes both filters (the line is no comment, its sample passes the *)
(* sample whitelist, and the token's text before its first "(" passes the  *)
(* gene whitelist) ends in neither "(A)" nor "(D)"; a badly suffixed token *)
(* that a whitelist filters out is skipped.  When it returns, the result   *)
(* is, in file order, one record per passing token: AMP for "(A)", DEL for *)
(* "(D)", the gene being the token's text before its first "(".            *)
C3_BadSuffixRaisesIfTokenPasses ==
    Done("load_cnas") =>
        LET f == call.file
            Occ == {o \in Occurrences(f) :
                       /\ Passes(f[o[1]][1], call.sample_wlst)
                       /\ Passes(BeforeParen(f[o[1]][o[2]]), call.gene_wlst)}
            Tok(o) == f[o[1]][o[2]]
        IN /\ ret.status \in {"ok", ValueError}
           /\ ret.status = ValueError <=> \E o \in Occ : ~IsAmp(Tok(o)) /\ ~IsDel(Tok(o))
           /\ ret.status = ValueError => ret.value = <<>>
           /\ ret.status = "ok" =>
                /\ Len(ret.value) = Cardinality(Occ)
                /\ \A o \in Occ :
                      ret.value[Rank(o, Occ)] =
                          Mutation(f[o[1]][1], BeforeParen(Tok(o)),
                                   IF IsAmp(Tok(o)) THEN AMP ELSE DEL)

(* a good token and then a badly suffixed one, both passing: raised; the   *)
(* whitelists are in use                                                   *)
C3_Witness ==
    /\ Done("load_cnas")
    /\ ret.status = ValueError
    /\ call.gene_wlst = SetWl({GeneP, GeneQ})
    /\ call.sample_wlst = SetWl({SampleS})
    /\ call.file = <<<<SampleT, TokQX>>, <<SampleS, TokPA, TokQX>>>>

----------------------------------------------------------------------------
----------------------------------------------------------------------------
(* C5: the merge returns a mapping whose keys are exactly the genes with a *)
(* score in at least one source; every gene has "fm", "amp" and "del",     *)
(* each the source's score where the gene has one and 1.0 where it has     *)
(* none; three empty sources give the empty mapping.                       *)
C5_MergeIsUnionFilledWithOne ==
    (Done("load_oncodrive_data") /\ ret.status = "ok") =>
        LET Rows(f) == {i \in 1..Len(f) : ~startswith_hash(f[i])}
            fm == call.fm_scores
            amp == call.cis_amp_scores
            del == call.cis_del_scores
            FmOf(g) == {i \in Rows(fm) : fm[i][2] = g /\ fm[i][3] \notin FmSkipped}
            CisOf(f, g) == {i \in Rows(f) : f[i][1] = g}
            Latest(I) == CHOOSE i \in I : \A j \in I : j <= i
            OneDotZero == float(<<"1", ".", "0">>)
            Scored == {g \in Genes :
                          FmOf(g) # {} \/ CisOf(amp, g) # {} \/ CisOf(del, g) # {}}
        IN /\ DOMAIN ret.value = Scored
           /\ \A g \in Scored :
                /\ DOMAIN ret.value[g] = {"fm", "amp", "del"}
                /\ ret.value[g].fm = IF FmOf(g) # {}
                                     THEN float(fm[Latest(FmOf(g))][3]) ELSE OneDotZero
                /\ ret.value[g].amp = IF CisOf(amp, g) # {}
                                      THEN float(amp[Latest(CisOf(amp, g))][2]) ELSE OneDotZero
                /\ ret.value[g].del = IF CisOf(del, g) # {}
                                      THEN float(del[Latest(CisOf(del, g))][2]) ELSE OneDotZero
           /\ (fm = <<>> /\ amp = <<>> /\ del = <<>>) => DOMAIN ret.value = {}

(* sources with disjoint genes: P only in fm, Q only in cis-del *)
C5_Witness ==
    /\ Done("load_oncodrive_data")
    /\ call.fm_scores = <<<<IdCol, GeneP, <<"0", ".", "2">>>>>>
    /\ call.cis_amp_scores = <<>>
    /\ call.cis_del_scores = <<<<GeneQ, <<"-", "0">>>>>>
    /\ ret.status = "ok"
    /\ DOMAIN ret.value = {GeneP, GeneQ}
    /\ ret.value[GeneP] = [fm |-> 2, amp |-> 10, del |-> 10]
    /\ ret.value[GeneQ] = [fm |-> 10, amp |-> 10, del |-> 0]

----------------------------------------------------------------------------
(* C6: for every bundle load_network loads, len(GeneIndex) ==              *)
(* matrix.shape[0] == matrix.shape[1], and index i of GeneIndex is the     *)
(* i-th entry of the bundle's node list.                                   *)
C6_IndexMatchesSquareMatrix ==
    (Done("load_network") /\ ret.status = "ok") =>
        LET idx == ret.value.indexToGene
            shape == ret.value.PPR.shape
            nodes == call.bundle.nodes
        IN /\ Cardinality(DOMAIN idx) = shape[1]
           /\ shape[1] = shape[2]
           /\ \A i \in 0..(Len(nodes) - 1) :
                 i \in DOMAIN idx /\ idx[i] = decode(nodes[i + 1])

----------------------------------------------------------------------------
(* C7: for every bundle load_network loads, every node of the returned     *)
(* graph is a gene name of the returned GeneIndex; a bundle whose edge     *)
(* list names a node outside GeneIndex makes load_network fail.            *)
C7_GraphNodesInGeneIndex ==
    Done("load_network") =>
        LET edges == call.bundle.edges
            nodes == call.bundle.nodes
            Named == {decode(nodes[i]) : i \in 1..Len(nodes)}
            Ends == UNION {{decode(edges[i][1]), decode(edges[i][2])} :
                              i \in 1..Len(edges)}
        IN /\ ret.status = "ok" =>
                 \A n \in ret.value.G.nodes :
                    \E i \in DOMAIN ret.value.indexToGene :
                       ret.value.indexToGene[i] = n
           /\ ~(Ends \subseteq Named) => ret.status # "ok"

----------------------------------------------------------------------------
(* C9: load_gene_order on a file of n lines returns chromo2genes with keys *)
(* 0..n-1, chromo2genes[i] being the whitespace-split gene list of line i  *)
(* (0-based), and gene2chromo whose keys are all the genes of the file,    *)
(* each gene g being a member of chromo2genes[gene2chromo[g]].             *)
C9_GeneOrderByLineNumber ==
    Done("load_gene_order") =>
        LET f == call.file
            n == Len(f)
            c2g == ret.value.chromo2genes
            g2c == ret.value.gene2chromo
            Black(l) == SelectSeq(l, LAMBDA ch : ch \notin Whitespace)
            Starts(l) == {k \in 1..Len(l) :
                             /\ l[k] \notin Whitespace
                             /\ (k = 1 \/ l[k - 1] \in Whitespace)}
            IsSplitOf(ws, l) ==
                /\ Len(ws) = Cardinality(Starts(l))
                /\ Concat(ws) = Black(l)
                /\ \A k \in 1..Len(ws) :
                      \E a \in Starts(l) :
                         /\ Rank(<<a, 0>>, {<<b, 0>> : b \in Starts(l)}) = k
                         /\ ws[k] = SubSeq(l, a, a + Len(ws[k]) - 1)
                         /\ Len(ws[k]) >= 1
                         /\ (a + Len(ws[k]) > Len(l) \/ l[a + Len(ws[k])] \in Whitespace)
        IN /\ ret.status = "ok"
           /\ DOMAIN c2g = 0..(n - 1)
           /\ \A i \in 0..(n - 1) : IsSplitOf(c2g[i], f[i + 1])
           /\ DOMAIN g2c = UNION {Range(c2g[i]) : i \in 0..(n - 1)}
           /\ \A g \in DOMAIN g2c :
                 g2c[g] \in 0..(n - 1) /\ g \in Range(c2g[g2c[g]])

(* the two-line file "A B" / "B": B is on both lines and maps to the last  *)
C9_Witness ==
    /\ Done("load_gene_order")
    /\ call.file = <<<<"A", " ", "B">>, <<"B">>>>
    /\ ret.status = "ok"
    /\ ret.value.chromo2genes[0] = <<<<"A">>, <<"B">>>>
    /\ ret.value.chromo2genes[1] = <<<<"B">>>>
    /\ DOMAIN ret.value.gene2chromo = {<<"A">>, <<"B">>}
    /\ ret.value.gene2chromo[<<"A">>] = 0
    /\ ret.value.gene2chromo[<<"B">>] = 1

----------------------------------------------------------------------------
(* C8: a heat mapping written as heat JSON by output_hotnet2_run (with     *)
(* using_json_heat false) is read back, by load_heat_json and by           *)
(* load_heat_file(json_heat=True), without error and with exactly the same *)
(* genes and the same score for every gene.                                *)
C8_HeatJsonRoundTrip ==
    (/\ pc = "done"
     /\ call.op \in {"load_heat_json", "load_heat_file"}
     /\ "written" \in DOMAIN call) =>
        /\ ret.status = "ok"
        /\ DOMAIN ret.value[1] = DOMAIN call.written.heat
        /\ \A g \in DOMAIN call.written.heat : ret.value[1][g] = call.written.heat[g]

----------------------------------------------------------------------------
(* C10: load_heat_file on a heat JSON whose parameters name the heat       *)
(* function load_mutation_heat and a non-empty sample_type_file (the other *)
(* file fields being there and their files well-formed) returns, and the   *)
(* sample-to-type mapping it returns is the one read from that file.       *)
C10_SampleTypesFromFile ==
    (/\ Done("load_heat_file")
     /\ call.json_heat
     /\ "heat_params" \in DOMAIN call
     /\ {"name", "heat_fn", "sample_file", "gene_file", "snv_file", "cna_file",
         "sample_type_file"} \subseteq DOMAIN call.heat_params
     /\ call.heat_params["heat_fn"] = MUTATION_HEAT
     /\ call.heat_params["sample_type_file"] # <<>>
     /\ fs.files[CnaPath].lines = <<<<SampleS, TokPA>>>>) =>
        LET types == fs.files[call.heat_params["sample_type_file"]].lines
        IN /\ ret.status = "ok"
           /\ ret.value[3][3] =
                 dict_update(EmptyDict,
                     [i \in 1..Len(types) |-> <<types[i][1], types[i][2]>>])

----------------------------------------------------------------------------
(* Vocabulary of the properties of the mutation data of a heat JSON *)

(* a finished load_heat_file call on a heat JSON made by load_mutation_heat *)
MutationHeatCall ==
    /\ Done("load_heat_file")
    /\ call.json_heat
    /\ "heat_params" \in DOMAIN call
    /\ "heat_fn" \in DOMAIN call.heat_params
    /\ call.heat_params["heat_fn"] = MUTATION_HEAT

(* the parameters give no file for this field: it is missing or empty *)
NotGiven(field) ==
    field \in DOMAIN call.heat_params => call.heat_params[field] = <<>>

(* the samples of the returned SNV and CNA records *)
ObservedSamples ==
    {ret.value[3][1][i].sample : i \in 1..Len(ret.value[3][1])}
        \cup {ret.value[3][2][i].sample : i \in 1..Len(ret.value[3][2])}

(* the samples that the sample whitelist file of the call lists *)
ListedSamples ==
    IF NotGiven("sample_file") THEN {}
    ELSE {fs.files[call.heat_params["sample_file"]].lines[i][1] :
             i \in 1..Len(fs.files[call.heat_params["sample_file"]].lines)}

----------------------------------------------------------------------------
(* C11: when load_heat_file returns for a heat JSON of load_mutation_heat   *)
(* that gives no sample_type_file, the keys of the returned sample-to-type  *)
(* mapping are exactly the samples of the returned SNV and CNA records and  *)
(* each maps to "Cancer", with or without a sample whitelist file.          *)
C11_TypesOfObservedSamples ==
    (MutationHeatCall /\ NotGiven("sample_type_file") /\ ret.status = "ok") =>
        /\ DOMAIN ret.value[3][3] = ObservedSamples
        /\ \A s \in DOMAIN ret.value[3][3] : ret.value[3][3][s] = Cancer

(* C11 as amended: the keys are the samples listed in the sample whitelist *)
(* file when it lists any (the observed samples are among them), and       *)
(* exactly the observed samples otherwise; each maps to "Cancer".          *)
C11_TypesOfListedElseObservedSamples ==
    (MutationHeatCall /\ NotGiven("sample_type_file") /\ ret.status = "ok") =>
        /\ DOMAIN ret.value[3][3] =
              IF ListedSamples # {} THEN ListedSamples ELSE ObservedSamples
        /\ ObservedSamples \subseteq DOMAIN ret.value[3][3]
        /\ \A s \in DOMAIN ret.value[3][3] : ret.value[3][3][s] = Cancer

(* the whitelist file lists S and T, the records name S only *)
C11_Witness ==
    /\ MutationHeatCall /\ NotGiven("sample_type_file") /\ ret.status = "ok"
    /\ ListedSamples = {SampleS, SampleT}
    /\ ObservedSamples = {SampleS}
    /\ ret.value[3][1] # <<>>
    /\ DOMAIN ret.value[3][3] = {SampleS, SampleT}

----------------------------------------------------------------------------
(* the optional fields of the parameters of a mutation heat JSON, and the  *)
(* parameters of the call with every omitted one of them present and empty *)
OptionalFields ==
    {"sample_file", "gene_file", "snv_file", "cna_file", "sample_type_file"}

OmittedAsEmpty ==
    [k \in DOMAIN call.heat_params \cup OptionalFields |->
        IF k \in DOMAIN call.heat_params THEN call.heat_params[k] ELSE <<>>]

(* C12: when load_heat_file handles a heat JSON of load_mutation_heat whose *)
(* parameters omit one of the optional fields sample_file, gene_file,       *)
(* snv_file, cna_file, sample_type_file (the files that are named being     *)
(* well-formed), the call returns normally and the mutation data are those  *)
(* of the default: no whitelist, no mutations, default sample types, as for *)
(* the same parameters with the omitted fields present and empty.           *)
C12_AbsentFieldIsDefault ==
    (/\ MutationHeatCall
     /\ "name" \in DOMAIN call.heat_params
     /\ OptionalFields \ DOMAIN call.heat_params # {}
     /\ NotGiven("sample_type_file")
     /\ fs.files[CnaPath].lines = <<<<SampleS, TokPA>>>>) =>
        /\ ret.status = "ok"
        /\ ret.value[3] = load_mutation_data(fs, OmittedAsEmpty).value

(* the part of C12 that holds: sample_type_file is the only omitted field *)
C12_AbsentTypeFileIsDefault ==
    (/\ MutationHeatCall
     /\ "name" \in DOMAIN call.heat_params
     /\ OptionalFields \ DOMAIN call.heat_params = {"sample_type_file"}
     /\ fs.files[CnaPath].lines = <<<<SampleS, TokPA>>>>) =>
        /\ ret.status = "ok"
        /\ ret.value[3] = load_mutation_data(fs, OmittedAsEmpty).value

----------------------------------------------------------------------------
(* the parameters.heat_file of the heat JSON in the directory of a delta *)
RecordedHeatFile(delta) ==
    json_load(fs.files[abspath(call.output_dir \o <<"/", "delta_", str(delta)>>)
                          \o <<"/">> \o HEAT_JSON])["parameters"]["heat_file"]

(* C13: after one call of output_hotnet2_run with using_json_heat false and *)
(* a result of several different deltas, the heat JSON in the directory of  *)
(* every delta, the first and the later ones alike, records as              *)
(* parameters.heat_file the heat_file path that the caller passed in.       *)
C13_EveryDeltaRecordsCallersHeatFile ==
    (/\ pc = "written"
     /\ call.op = "output_hotnet2_run"
     /\ ~call.using_json_heat
     /\ Len(call.result) >= 2
     /\ \A i, j \in 1..Len(call.result) :
           i # j => call.result[i].delta # call.result[j].delta
     /\ ret.status = "ok") =>
        \A i \in 1..Len(call.result) :
            RecordedHeatFile(call.result[i].delta) = call.heat_file

(* the part of C13 that holds: the heat JSON of the first delta *)
C13_FirstDeltaRecordsCallersHeatFile ==
    (/\ pc = "written"
     /\ call.op = "output_hotnet2_run"
     /\ ~call.using_json_heat
     /\ Len(call.result) >= 1
     /\ \A i, j \in 1..Len(call.result) :
           i # j => call.result[i].delta # call.result[j].delta
     /\ ret.status = "ok") =>
        RecordedHeatFile(call.result[1].delta) = call.heat_file

====
